---- MODULE Spec2Model ----
(***************************************************************************)
(* The resource cache pool of server/knowledge_base/kb_cache: a            *)
(* ThreadSafeObject (payload, RLock, loaded Event) per entry, a CachePool  *)
(* (OrderedDict, cache_num, atomic RLock) and the load_vector_store /      *)
(* load_embeddings get-or-create protocol, run by concurrent threads.      *)
(*                                                                         *)
(* One step of the model is one atomic effect of the Python code on the    *)
(* shared state: an OrderedDict operation, a lock operation, an Event      *)
(* operation.  A lock acquisition is merged with the statements that       *)
(* follow it and a release with the statements that precede it.            *)
(***************************************************************************)
EXTENDS Integers, Sequences, FiniteSets, TLC

\* ---------------------------------------------------------------- bounds
\* The keys concurrent callers ask for, and the largest capacity of the pool in
\* the runs of a single caller.
NumKeys == 2
MaxCacheNum == 2

\* The documents a caller may add to a vector store.
MaxDocs == 1

\* embeddings_pool = EmbeddingsPool(cache_num=1): the capacity of the pool in the
\* concurrent runs.
CacheNum == 1

\* The threads of the process.  The number of threads is fixed.
Threads == {1, 2, 3}

\* The two threads that make the calls in the runs where every kind of call is made:
\* the races looked at there are between two threads (a constructor and a waiter, a
\* user and an evictor), and a third caller puts the state space out of TLC's reach.
\* The third thread makes calls in the run of loads alone (SpecCross).
Pair == {1, 2}

\* The keys of the concurrent runs; the runs of a single caller use one key more,
\* so that a pool of capacity MaxCacheNum overflows too.
ConcKeys == 1..NumKeys
Keys == 1..(NumKeys + 1)

\* Enough instances for a full pool and one more reference per thread.
MaxObjs == NumKeys + 1 + Cardinality(Threads)
Ents == 1..MaxObjs

Docs == 1..MaxDocs

\* Python's None, as an entry reference, a payload, a key, a lock owner.
None == 0

\* CachePool.__init__'s default cache_num: no limit.
Unbounded == -1

VARIABLES
    cache_num,  \* CachePool._cache_num
    keyset,     \* the keys the callers of this run ask for
    cache,      \* CachePool._cache: the entries in OrderedDict order, oldest first
    ents,       \* the ThreadSafeObject instances: _key, _obj, _loaded, _lock
    atomic,     \* CachePool.atomic, an RLock: the thread that holds it (or None) and
                \* how many times that thread has acquired it
    pc,         \* where each thread is in its call
    op,         \* the call each thread is in
    tkey,       \* the key argument of that call
    tent,       \* the entry the thread refers to (cache / item)
    texc,       \* the exception the call ended with, "" for none
    waited,     \* whether the call has blocked in wait_for_loading
    nctor,      \* per key, how many times its constructor has run since the key
                \* entered the pool (capped at 2)
    tcreate,    \* the create argument of each thread's load_vector_store call
    disk,       \* per key, the index persisted under the key's vs_path
    emb,        \* embeddings_pool, the pool a vector store's constructor calls
    obs         \* history of the run of a single caller: the order of the accesses,
                \* the insertions since the last access, what was last saved

\* The variables that only the runs about persistence and the embeddings pool change.
rest == <<tcreate, disk, emb>>

vars == <<cache_num, keyset, cache, ents, atomic, pc, op, tkey, tent, texc, waited, nctor,
          tcreate, disk, emb, obs>>

\* ------------------------------------------------------ ThreadSafeObject

\* ThreadSafeObject.__init__(key, pool=self): no payload, Event clear, lock free.
\* failed records that the construction of this entry raised.
\* docs are the documents of the payload, once there is one.
NewItem(k) ==
    [key |-> k, obj |-> None, loaded |-> FALSE, lock |-> None, failed |-> FALSE, docs |-> {}]

\* An instance no thread and no pool refers to.
Blank ==
    [key |-> None, obj |-> None, loaded |-> FALSE, lock |-> None, failed |-> FALSE, docs |-> {}]

Range(s) == {s[i] : i \in 1..Len(s)}

Referenced(c, te) == Range(c) \cup {te[t] : t \in Threads}

FreeEnts == Ents \ Referenced(cache, tent)

NewEnt == CHOOSE e \in FreeEnts : \A f \in FreeEnts : e <= f

\* ThreadSafeObject.wait_for_loading returns: the Event is set.
WaitDoneNoWait(e) == TRUE
WaitDone(e) == ents[e].loaded

\* self._lock.acquire() can proceed for thread t (an RLock).
LockFree(e, t) == ents[e].lock \in {None, t}

\* the finally clause of ThreadSafeObject.acquire: self._lock.release()
ReleaseKeepsLock(en, e) == en
Release(en, e) == [en EXCEPT ![e].lock = None]

\* --------------------------------------------------------------- CachePool

\* threading.RLock(): not held.
NoLock == [owner |-> None, depth |-> "free"]

\* self.atomic.acquire() can proceed for thread t (an RLock).
AtomicFreeAlways(t) == TRUE
AtomicFree(t) == atomic.owner \in {None, t}

\* self.atomic.acquire() by thread t: the owner holds it once more.  The count
\* is kept as "once" or "more than once": every release in the code follows an
\* acquire of the same call, so a lock held more than once before a release is
\* still held after it, whatever the exact count.
AtomicAcquire(t) == [owner |-> t, depth |-> IF atomic.depth = "free" THEN "once" ELSE "more"]

\* self.atomic.release(): the lock is free once every acquire has been released.
AtomicRelease == IF atomic.depth = "more" THEN [atomic EXCEPT !.depth = "once"] ELSE NoLock

InCache(k) == \E i \in 1..Len(cache) : ents[cache[i]].key = k

\* self._cache.get(key)
Lookup(k) == IF InCache(k) THEN CHOOSE e \in Range(cache) : ents[e].key = k ELSE None

\* self._cache.pop(key, None)
PopNot(c, k) == c
Pop(c, k) == LET Keep(e) == ents[e].key # k IN SelectSeq(c, Keep)

\* self._cache.move_to_end(key), for a key that is present
MoveToEndNot(c, k) == c
MoveToEnd(c, k) == Append(Pop(c, k), Lookup(k))

\* CachePool._check_count: while len(self._cache) > self._cache_num: popitem(last=False)
CheckCountOff(c) == c
CheckCountNewest(c) == IF cache_num > 0 /\ Len(c) > cache_num THEN SubSeq(c, 1, cache_num) ELSE c
CheckCount(c) ==
    IF cache_num > 0 /\ Len(c) > cache_num
    THEN SubSeq(c, Len(c) - cache_num + 1, Len(c))
    ELSE c

\* CachePool.set: self._cache[key] = obj; self._check_count()
\* (an existing key keeps its place in the OrderedDict, a new key goes last)
CacheSet(c, k, e) ==
    CheckCount(IF InCache(k)
               THEN [i \in 1..Len(c) |-> IF ents[c[i]].key = k THEN e ELSE c[i]]
               ELSE Append(c, e))

\* The entries a pool order c and the threads' references te keep alive, in a fixed
\* order: the pool's entries in pool order, then the entries only threads refer to,
\* by the first thread that refers to each.
FirstRef(te, e) == CHOOSE t \in Threads : te[t] = e /\ \A u \in Threads : te[u] = e => t <= u

Orphans(c, te) == ({te[t] : t \in Threads} \ {None}) \ Range(c)

OrphanSeq(c, te) ==
    LET O == Orphans(c, te)
    IN CHOOSE s \in [1..Cardinality(O) -> O] :
          \A i, j \in 1..Cardinality(O) : i < j => FirstRef(te, s[i]) < FirstRef(te, s[j])

Live(c, te) == c \o OrphanSeq(c, te)

Index(s, e) == CHOOSE i \in 1..Len(s) : s[i] = e

\* The shared state after a step, with pool order c, references te, instances en and
\* constructor counts nc.  Instances nothing refers to any more are gone (garbage
\* collected), and the live ones are renumbered in the order of Live: an instance's
\* number is its address, and only which references are equal matters.  The count
\* of a key restarts when the key leaves the pool.
Update(c, te, en, nc) ==
    LET live == Live(c, te)
    IN /\ cache' = [i \in 1..Len(c) |-> i]
       /\ tent' = [t \in Threads |-> IF te[t] = None THEN None ELSE Index(live, te[t])]
       /\ ents' = [e \in Ents |-> IF e <= Len(live) THEN en[live[e]] ELSE Blank]
       /\ nctor' = [k \in Keys |->
                       IF \E i \in 1..Len(c) : en[c[i]].key = k THEN nc[k] ELSE 0]

\* The constructor of key k has run once more.
Bump(k) == [nctor EXCEPT ![k] = IF @ < 2 THEN @ + 1 ELSE @]

\* wait_for_loading on entry e blocks the thread when the Event is not set.
Blocks(t, e) == [waited EXCEPT ![t] = @ \/ (e # None /\ ~ents[e].loaded)]

\* ---------------------------------------------------------------- history

\* No access recorded yet.
NoAcc == [key |-> None, how |-> ""]

\* No index.faiss under the key's vs_path.
NoIndex == [index |-> FALSE, docs |-> {}]

Without(s, k) == LET Other(x) == x # k IN SelectSeq(s, Other)

\* Key k becomes the most recently accessed one.
Touch(s, k) == Append(Without(s, k), k)

LastN(s, n) == IF Len(s) <= n THEN s ELSE SubSeq(s, Len(s) - n + 1, Len(s))

\* The history after an access to key k: a lookup of CachePool.get that finds k
\* (how = "get", or "load" inside a load), or a move_to_end of an acquire.
Access(k, how) ==
    IF obs.on
    THEN [obs EXCEPT !.recent = Touch(@, k), !.hist = <<>>, !.acc = [key |-> k, how |-> how]]
    ELSE obs

\* The history after CachePool.set has inserted k and left pool order c of instances en.
Inserted(k, c, en) ==
    LET Kept(x) == \E i \in 1..Len(c) : en[c[i]].key = x
    IN IF obs.on
       THEN [obs EXCEPT !.recent = SelectSeq(Touch(@, k), Kept),
                        !.hist = LastN(Append(@, k), cache_num + 1)]
       ELSE obs

\* The history after the lookup that ends a load.
Looked(k) ==
    IF obs.on /\ InCache(k) THEN [obs EXCEPT !.recent = Touch(@, k)] ELSE obs

\* The history after CachePool.pop(k).
Removed(k) ==
    IF obs.on
    THEN [obs EXCEPT !.recent = Without(@, k), !.acc = IF @.key = k THEN NoAcc ELSE @]
    ELSE obs

\* ------------------------------------------------------------------- Init

\* No history is recorded.
ObsOff ==
    [on |-> FALSE, recent |-> <<>>, hist |-> <<>>, acc |-> NoAcc,
     saved |-> [k \in Keys |-> NoIndex]]

\* embeddings_pool = EmbeddingsPool(cache_num=1): empty, atomic free, no thread in it.
NoEmb ==
    [cache |-> <<>>, atomic |-> None,
     wait |-> [t \in Threads |-> None], model |-> [t \in Threads |-> None],
     dev |-> [t \in Threads |-> None]]

\* Nothing is persisted, and every load passes create=True, the default.
NoRest ==
    /\ tcreate = [t \in Threads |-> TRUE]
    /\ disk = [k \in Keys |-> NoIndex]
    /\ emb = NoEmb

TypeInit ==
    /\ cache = <<>>
    /\ ents = [e \in Ents |-> Blank]
    /\ atomic = NoLock
    /\ pc = [t \in Threads |-> "idle"]
    /\ op = [t \in Threads |-> ""]
    /\ tkey = [t \in Threads |-> None]
    /\ tent = [t \in Threads |-> None]
    /\ texc = [t \in Threads |-> ""]
    /\ waited = [t \in Threads |-> FALSE]
    /\ nctor = [k \in Keys |-> 0]

\* CachePool.__init__(cache_num) with a positive capacity; callers use every key.
Init ==
    /\ TypeInit
    /\ NoRest
    /\ obs = ObsOff
    /\ cache_num = CacheNum
    /\ keyset = ConcKeys

\* -------------------------------------- load_vector_store / load_embeddings

\* A thread calls load_vector_store(k) / load_embeddings(k): self.atomic.acquire()
\* is the first statement, and blocks while another thread holds atomic.
LoadCall(t, k) ==
    /\ pc[t] = "idle"
    /\ k \in keyset
    /\ pc' = [pc EXCEPT ![t] = "l_atomic"]
    /\ op' = [op EXCEPT ![t] = "load"]
    /\ tkey' = [tkey EXCEPT ![t] = k]
    /\ obs' = obs
    /\ UNCHANGED <<cache_num, keyset, cache, ents, atomic, tent, texc, nctor, waited, rest>>

\* self.atomic.acquire(); cache = self.get(key): on a hit get goes on to
\* wait_for_loading, with atomic held; on a miss it returns None.
LoadBegin(t) ==
    /\ pc[t] = "l_atomic"
    /\ AtomicFree(t)
    /\ atomic' = AtomicAcquire(t)
    /\ LET e == Lookup(tkey[t])
       IN /\ waited' = Blocks(t, e)
          /\ pc' = [pc EXCEPT ![t] = IF e # None THEN "l_wait" ELSE "l_set"]
          /\ Update(cache, [tent EXCEPT ![t] = e], ents, nctor)
    /\ obs' = IF InCache(tkey[t]) THEN Access(tkey[t], "load") ELSE obs
    /\ UNCHANGED <<cache_num, keyset, op, tkey, texc, rest>>

\* cache is None: item = ThreadSafeObject(key, pool=self); self.set(key, item)
LoadSet(t) ==
    /\ pc[t] = "l_set"
    /\ FreeEnts # {}
    /\ pc' = [pc EXCEPT ![t] = "l_lock"]
    /\ LET n == NewEnt
           en == [ents EXCEPT ![n] = NewItem(tkey[t])]
           c == CacheSet(cache, tkey[t], n)
       IN /\ Update(c, [tent EXCEPT ![t] = n], en, nctor)
          /\ obs' = Inserted(tkey[t], c, en)
    /\ UNCHANGED <<cache_num, keyset, atomic, op, tkey, texc, waited, rest>>

\* cache.wait_for_loading() returns inside get; cache is not None: self.atomic.release()
LoadWaited(t) ==
    /\ pc[t] = "l_wait"
    /\ WaitDone(tent[t])
    /\ atomic' = AtomicRelease
    /\ pc' = [pc EXCEPT ![t] = "l_final"]
    /\ Update(cache, [tent EXCEPT ![t] = None], ents, nctor)
    /\ obs' = obs
    /\ UNCHANGED <<cache_num, keyset, op, tkey, texc, waited, rest>>

\* with item.acquire(msg="初始化"): self._lock.acquire();
\* self._pool._cache.move_to_end(self.key); then, in the body, self.atomic.release().
\* move_to_end raises KeyError when the key is no longer in the pool: the finally
\* clause releases the item's lock, and atomic.release() is never reached.
LoadItemAcquire(t) ==
    /\ pc[t] = "l_lock"
    /\ LockFree(tent[t], t)
    /\ IF InCache(tkey[t])
       THEN /\ Update(MoveToEnd(cache, tkey[t]), tent, [ents EXCEPT ![tent[t]].lock = t], nctor)
            /\ atomic' = AtomicRelease
            /\ pc' = [pc EXCEPT ![t] = "l_ctor"]
            /\ texc' = texc
       ELSE /\ Update(cache, [tent EXCEPT ![t] = None],
                      Release([ents EXCEPT ![tent[t]].lock = t], tent[t]), nctor)
            /\ atomic' = atomic
            /\ pc' = [pc EXCEPT ![t] = "ret"]
            /\ texc' = [texc EXCEPT ![t] = "KeyError"]
    /\ obs' = obs
    /\ UNCHANGED <<cache_num, keyset, op, tkey, waited, rest>>

\* The constructor returns, and finish_loading comes before the payload is assigned.
LoadCtorOkEventFirst(t) ==
    /\ pc[t] = "l_ctor"
    /\ Update(cache, tent, [ents EXCEPT ![tent[t]].loaded = TRUE], Bump(tkey[t]))
    /\ pc' = [pc EXCEPT ![t] = "l_fin"]
    /\ obs' = obs
    /\ UNCHANGED <<cache_num, keyset, atomic, op, tkey, texc, waited, rest>>

\* The constructor returns: item.obj = vector_store / embeddings
LoadCtorOk(t) ==
    /\ pc[t] = "l_ctor"
    /\ Update(cache, tent, [ents EXCEPT ![tent[t]].obj = 1], Bump(tkey[t]))
    /\ pc' = [pc EXCEPT ![t] = "l_fin"]
    /\ obs' = obs
    /\ UNCHANGED <<cache_num, keyset, atomic, op, tkey, texc, waited, rest>>

\* The constructor raises (RuntimeError "knowledge base not exist", an I/O error,
\* a backend error): the with statement releases the item's lock and the exception
\* leaves load_vector_store; nothing else is done.
LoadCtorRaise(t) ==
    /\ pc[t] = "l_ctor"
    /\ Update(cache, [tent EXCEPT ![t] = None],
              Release([ents EXCEPT ![tent[t]].failed = TRUE], tent[t]), Bump(tkey[t]))
    /\ pc' = [pc EXCEPT ![t] = "ret"]
    /\ texc' = [texc EXCEPT ![t] = "ctor"]
    /\ obs' = obs
    /\ UNCHANGED <<cache_num, keyset, atomic, op, tkey, waited, rest>>

\* item.finish_loading(), and the with statement ends: self._lock.release()
LoadFinish(t) ==
    /\ pc[t] = "l_fin"
    /\ Update(cache, [tent EXCEPT ![t] = None],
              Release([ents EXCEPT ![tent[t]].loaded = TRUE], tent[t]), nctor)
    /\ pc' = [pc EXCEPT ![t] = "l_final"]
    /\ obs' = obs
    /\ UNCHANGED <<cache_num, keyset, atomic, op, tkey, texc, waited, rest>>

\* return self.get(key): the lookup of CachePool.get
LoadFinal(t) ==
    /\ pc[t] = "l_final"
    /\ LET e == Lookup(tkey[t])
       IN /\ waited' = Blocks(t, e)
          /\ Update(cache, [tent EXCEPT ![t] = e], ents, nctor)
          /\ pc' = [pc EXCEPT ![t] = IF e = None THEN "ret" ELSE "g_wait"]
    /\ obs' = Looked(tkey[t])
    /\ UNCHANGED <<cache_num, keyset, atomic, op, tkey, texc, rest>>

\* ------------------------------------------------------------ CachePool.get

\* Where a call goes on once CachePool.get has returned an entry.
AfterGet(o) ==
    CASE o = "unload" -> "u_pop"
      [] o = "acquire" -> "a_move"
      [] OTHER -> "ret"

\* A thread calls CachePool.get(k), _FaissPool.unload_vector_store(k) or
\* CachePool.acquire(k); each starts with the lookup of CachePool.get.  On a miss
\* get returns None: unload_vector_store does nothing, CachePool.acquire raises
\* RuntimeError.
GetCall(t, k, o) ==
    /\ pc[t] = "idle"
    /\ k \in keyset
    /\ op' = [op EXCEPT ![t] = o]
    /\ tkey' = [tkey EXCEPT ![t] = k]
    /\ LET e == Lookup(k)
       IN /\ waited' = Blocks(t, e)
          /\ Update(cache, [tent EXCEPT ![t] = e], ents, nctor)
          /\ pc' = [pc EXCEPT ![t] = IF e = None THEN "ret" ELSE "g_wait"]
          /\ texc' = [texc EXCEPT ![t] = IF e = None /\ o = "acquire"
                                          THEN "RuntimeError" ELSE ""]
    /\ obs' = IF InCache(k) THEN Access(k, "get") ELSE obs
    /\ UNCHANGED <<cache_num, keyset, atomic, rest>>

\* cache.wait_for_loading() returns; return cache
GetWaited(t) ==
    /\ pc[t] = "g_wait"
    /\ WaitDone(tent[t])
    /\ pc' = [pc EXCEPT ![t] = AfterGet(op[t])]
    /\ obs' = obs
    /\ UNCHANGED <<cache_num, keyset, cache, ents, atomic, op, tkey, tent, texc, nctor, waited, rest>>

\* unload_vector_store: self.pop(kb_name), and the log line that follows it
UnloadPop(t) ==
    /\ pc[t] = "u_pop"
    /\ Update(Pop(cache, tkey[t]), [tent EXCEPT ![t] = None], ents, nctor)
    /\ pc' = [pc EXCEPT ![t] = "ret"]
    /\ op' = [op EXCEPT ![t] = "unloaded"]
    /\ obs' = Removed(tkey[t])
    /\ UNCHANGED <<cache_num, keyset, atomic, tkey, texc, waited, rest>>

\* CachePool.acquire: self._cache.move_to_end(key); return cache.acquire(...)
PoolAcquireMove(t) ==
    /\ pc[t] = "a_move"
    /\ IF InCache(tkey[t])
       THEN /\ Update(MoveToEnd(cache, tkey[t]), tent, ents, nctor)
            /\ pc' = [pc EXCEPT ![t] = "h_lock"]
            /\ texc' = texc
       ELSE /\ Update(cache, [tent EXCEPT ![t] = None], ents, nctor)
            /\ pc' = [pc EXCEPT ![t] = "ret"]
            /\ texc' = [texc EXCEPT ![t] = "KeyError"]
    /\ obs' = IF InCache(tkey[t]) THEN Access(tkey[t], "acquire") ELSE obs
    /\ UNCHANGED <<cache_num, keyset, atomic, op, tkey, waited, rest>>

\* ------------------------------------------------- ThreadSafeObject.acquire

\* A caller enters an acquire scope on the handle a load or get returned:
\* with pool.load_vector_store(k).acquire() as vs, pool.get(k).clear(), cache.save(path)
HandleAcquireCall(t) ==
    /\ pc[t] = "ret"
    /\ tent[t] # None
    /\ pc' = [pc EXCEPT ![t] = "h_lock"]
    /\ op' = [op EXCEPT ![t] = "use"]
    /\ waited' = [waited EXCEPT ![t] = FALSE]
    /\ obs' = obs
    /\ UNCHANGED <<cache_num, keyset, cache, ents, atomic, tkey, tent, texc, nctor, rest>>

\* ThreadSafeObject.acquire: self._lock.acquire(); self._pool._cache.move_to_end(self.key);
\* yield self._obj.  move_to_end raises KeyError when the key is not in the pool, and
\* the finally clause releases the lock.
HandleLock(t) ==
    /\ pc[t] = "h_lock"
    /\ LockFree(tent[t], t)
    /\ LET e == tent[t]
           k == ents[e].key
           held == [ents EXCEPT ![e].lock = t]
       IN IF InCache(k)
          THEN /\ Update(MoveToEnd(cache, k), tent, held, nctor)
               /\ pc' = [pc EXCEPT ![t] = "scope"]
               /\ texc' = texc
          ELSE /\ Update(cache, [tent EXCEPT ![t] = None], Release(held, e), nctor)
               /\ pc' = [pc EXCEPT ![t] = "ret"]
               /\ texc' = [texc EXCEPT ![t] = "KeyError"]
    /\ obs' = IF InCache(ents[tent[t]].key) THEN Access(ents[tent[t]].key, "acquire") ELSE obs
    /\ UNCHANGED <<cache_num, keyset, atomic, op, tkey, waited, rest>>

\* The with body ends, by its last statement or by an exception x raised in it:
\* finally: self._lock.release()
ScopeExit(t, x) ==
    /\ pc[t] = "scope"
    /\ Update(cache, [tent EXCEPT ![t] = None], Release(ents, tent[t]), nctor)
    /\ pc' = [pc EXCEPT ![t] = "ret"]
    /\ texc' = [texc EXCEPT ![t] = x]
    /\ obs' = obs
    /\ UNCHANGED <<cache_num, keyset, atomic, op, tkey, waited, rest>>

\* The call is over and the thread drops what it returned.
Return(t) ==
    /\ pc[t] = "ret"
    /\ pc' = [pc EXCEPT ![t] = "idle"]
    /\ op' = [op EXCEPT ![t] = ""]
    /\ tkey' = [tkey EXCEPT ![t] = None]
    /\ texc' = [texc EXCEPT ![t] = ""]
    /\ waited' = [waited EXCEPT ![t] = FALSE]
    /\ Update(cache, [tent EXCEPT ![t] = None], ents, nctor)
    /\ obs' = obs
    /\ UNCHANGED <<cache_num, keyset, atomic, rest>>

\* ------------------------------------------------------------------- Next

LoadStep(t) ==
    \/ \E k \in Keys : LoadCall(t, k)
    \/ LoadBegin(t)
    \/ LoadSet(t)
    \/ LoadWaited(t)
    \/ LoadItemAcquire(t)
    \/ LoadCtorOk(t)
    \/ LoadCtorRaise(t)
    \/ LoadFinish(t)
    \/ LoadFinal(t)
    \/ GetWaited(t)
    \/ Return(t)

UseStep(t) ==
    \/ HandleAcquireCall(t)
    \/ HandleLock(t)
    \/ \E x \in {"", "scope"} : ScopeExit(t, x)

PoolStep(t) ==
    \/ \E k \in Keys, o \in {"get", "unload", "acquire"} : GetCall(t, k, o)
    \/ UnloadPop(t)
    \/ PoolAcquireMove(t)

Next == \E t \in Pair : LoadStep(t) \/ UseStep(t) \/ PoolStep(t)

\* Every interleaving of calls on a pool of positive capacity.
Spec == Init /\ [][Next]_vars

\* Threads that only load and use what they loaded, with nothing that takes an entry
\* out of the pool: every thread asks for the same key, or the pool has no limit.
InitLoads ==
    /\ TypeInit
    /\ NoRest
    /\ obs = ObsOff
    /\ \/ cache_num \in 1..MaxCacheNum /\ keyset \in {{k} : k \in ConcKeys}
       \/ cache_num = Unbounded /\ keyset = ConcKeys

NextLoads == \E t \in Pair : LoadStep(t) \/ UseStep(t)

SpecLoads == InitLoads /\ [][NextLoads]_vars

\* Steps of a call that is under way: the scheduler runs every thread that can
\* run; nothing makes a caller start a new call.
Continue(t) ==
    \/ LoadBegin(t)
    \/ LoadSet(t)
    \/ LoadWaited(t)
    \/ LoadItemAcquire(t)
    \/ LoadCtorOk(t)
    \/ LoadCtorRaise(t)
    \/ LoadFinish(t)
    \/ LoadFinal(t)
    \/ GetWaited(t)
    \/ UnloadPop(t)
    \/ PoolAcquireMove(t)
    \/ HandleLock(t)
    \/ \E x \in {"", "scope"} : ScopeExit(t, x)
    \/ Return(t)

\* A pool of capacity 1 (embeddings_pool) whose callers use two keys.
InitLive ==
    /\ TypeInit
    /\ NoRest
    /\ obs = ObsOff
    /\ cache_num = CacheNum
    /\ keyset = {1, 2}

SpecLive == InitLive /\ [][Next]_vars /\ \A t \in Threads : WF_vars(Continue(t))

\* The thread of the runs of a single caller.
Caller == CHOOSE t \in Threads : \A u \in Threads : t <= u

\* ------------------------------------------------------------ persistence

\* os.path.isfile(os.path.join(vs_path, "index.faiss"))
HasIndexNever(k) == FALSE
HasIndex(k) == disk[k].index

\* the create argument of the call
MayCreateAlways(t) == TRUE
MayCreate(t) == tcreate[t]

\* The document "init" that new_vector_store builds the store from.
InitDoc == 0

\* _FaissPool.new_vector_store: FAISS.from_documents([doc]) with the document "init",
\* then vector_store.delete of every id of the docstore.
NewVectorStore == LET built == {InitDoc} IN built \ built

\* vector_store.save_local(vs_path): index.faiss and the docstore are written.
SaveLocal(docs) == [index |-> TRUE, docs |-> docs]

\* A thread calls load_vector_store(k, create=cr).
LoadCallCreate(t, k, cr) ==
    /\ pc[t] = "idle"
    /\ k \in keyset
    /\ pc' = [pc EXCEPT ![t] = "l_atomic"]
    /\ op' = [op EXCEPT ![t] = "load"]
    /\ tkey' = [tkey EXCEPT ![t] = k]
    /\ tcreate' = [tcreate EXCEPT ![t] = cr]
    /\ UNCHANGED <<cache_num, keyset, cache, ents, atomic, tent, texc, nctor, waited,
                   disk, emb, obs>>

\* index.faiss is there: vector_store = FAISS.load_local(vs_path, embeddings);
\* item.obj = vector_store
LoadFromDisk(t) ==
    /\ pc[t] = "l_ctor"
    /\ HasIndex(tkey[t])
    /\ Update(cache, tent,
              [ents EXCEPT ![tent[t]].obj = 1, ![tent[t]].docs = disk[tkey[t]].docs],
              Bump(tkey[t]))
    /\ pc' = [pc EXCEPT ![t] = "l_fin"]
    /\ UNCHANGED <<cache_num, keyset, atomic, op, tkey, texc, waited, rest, obs>>

\* no index.faiss, and create: os.makedirs; vector_store = self.new_vector_store(...);
\* vector_store.save_local(vs_path); item.obj = vector_store
LoadCreate(t) ==
    /\ pc[t] = "l_ctor"
    /\ ~HasIndex(tkey[t])
    /\ MayCreate(t)
    /\ Update(cache, tent,
              [ents EXCEPT ![tent[t]].obj = 1, ![tent[t]].docs = NewVectorStore],
              Bump(tkey[t]))
    /\ disk' = [disk EXCEPT ![tkey[t]] = SaveLocal(NewVectorStore)]
    /\ pc' = [pc EXCEPT ![t] = "l_fin"]
    /\ UNCHANGED <<cache_num, keyset, atomic, op, tkey, texc, waited, tcreate, emb, obs>>

\* no index.faiss, and not create: raise RuntimeError("knowledge base ... not exist.");
\* the with statement releases the item's lock.
LoadNotFound(t) ==
    /\ pc[t] = "l_ctor"
    /\ ~HasIndex(tkey[t])
    /\ ~MayCreate(t)
    /\ Update(cache, [tent EXCEPT ![t] = None],
              Release([ents EXCEPT ![tent[t]].failed = TRUE], tent[t]), Bump(tkey[t]))
    /\ pc' = [pc EXCEPT ![t] = "ret"]
    /\ texc' = [texc EXCEPT ![t] = "NotFound"]
    /\ UNCHANGED <<cache_num, keyset, atomic, op, tkey, waited, rest, obs>>

\* Inside an acquire scope: vs.add_documents(...) with document d
ScopeAdd(t, d) ==
    /\ pc[t] = "scope"
    /\ d \notin ents[tent[t]].docs
    /\ Update(cache, tent, [ents EXCEPT ![tent[t]].docs = @ \cup {d}], nctor)
    /\ UNCHANGED <<cache_num, keyset, atomic, pc, op, tkey, texc, waited, rest, obs>>

\* Inside an acquire scope: the body of ThreadSafeFaiss.clear, self._obj.delete(ids)
\* of every id when there is one
ScopeClear(t) ==
    /\ pc[t] = "scope"
    /\ ents[tent[t]].docs # {}
    /\ Update(cache, tent, [ents EXCEPT ![tent[t]].docs = {}], nctor)
    /\ UNCHANGED <<cache_num, keyset, atomic, pc, op, tkey, texc, waited, rest, obs>>

\* Inside an acquire scope: self._obj.save_local(path) of ThreadSafeFaiss.save,
\* vs.save_local(self.vs_path) of add_kb_summary, with the path of the entry's key.
ScopeSave(t) ==
    /\ pc[t] = "scope"
    /\ LET k == ents[tent[t]].key
           written == SaveLocal(ents[tent[t]].docs)
       IN /\ disk' = [disk EXCEPT ![k] = written]
          /\ obs' = [obs EXCEPT !.saved[k] = written]
    /\ UNCHANGED <<cache_num, keyset, cache, ents, atomic, pc, op, tkey, tent, texc,
                   waited, nctor, tcreate, emb>>

\* The process ends and starts again: kb_faiss_pool is a new, empty pool; what is
\* on disk stays.
Restart ==
    /\ \A t \in Threads : pc[t] = "idle"
    /\ cache # <<>>
    /\ Update(<<>>, tent, ents, nctor)
    /\ atomic' = NoLock
    /\ UNCHANGED <<cache_num, keyset, pc, op, tkey, texc, waited, rest, obs>>

\* The steps of load_vector_store when what is on disk decides what its constructor does.
DiskLoadStep(t) ==
    \/ \E k \in Keys, cr \in BOOLEAN : LoadCallCreate(t, k, cr)
    \/ LoadBegin(t)
    \/ LoadSet(t)
    \/ LoadWaited(t)
    \/ LoadItemAcquire(t)
    \/ LoadFromDisk(t)
    \/ LoadCreate(t)
    \/ LoadNotFound(t)
    \/ LoadFinish(t)
    \/ LoadFinal(t)
    \/ GetWaited(t)
    \/ Return(t)

DiskUseStep(t) ==
    \/ UseStep(t)
    \/ \E d \in Docs : ScopeAdd(t, d)
    \/ ScopeClear(t)
    \/ ScopeSave(t)

\* Steps of a call that is under way, as in Continue.
DiskContinue(t) ==
    \/ LoadBegin(t)
    \/ LoadSet(t)
    \/ LoadWaited(t)
    \/ LoadItemAcquire(t)
    \/ LoadFromDisk(t)
    \/ LoadCreate(t)
    \/ LoadNotFound(t)
    \/ LoadFinish(t)
    \/ LoadFinal(t)
    \/ GetWaited(t)
    \/ UnloadPop(t)
    \/ PoolAcquireMove(t)
    \/ HandleLock(t)

\* A single caller of kb_faiss_pool, starting with nothing on disk.
InitDisk ==
    /\ TypeInit
    /\ NoRest
    /\ obs = ObsOff
    /\ cache_num = CacheNum
    /\ keyset = ConcKeys

NextDisk == DiskLoadStep(Caller) \/ DiskUseStep(Caller) \/ PoolStep(Caller) \/ Restart

SpecDisk == InitDisk /\ [][NextDisk]_vars /\ WF_vars(DiskContinue(Caller))

\* -------------------------------------------------------- embeddings_pool

\* kb_detail.get("embed_model", default_embed_model): the embedding model of a
\* knowledge base; here every knowledge base has its own.
EmbModel(k) == k

\* The values callers pass as the device argument of load_embeddings.
Devices == {"cpu", "cuda"}

\* device = embedding_device(): the call has no argument, and returns the device the
\* process is configured to use.
EmbeddingDevice == "cpu"

\* key = (model, device), after device = embedding_device() has replaced the
\* caller's device argument dv.
EmbKey(m, dv) == <<m, EmbeddingDevice>>

\* self._cache.get(key) of embeddings_pool.  An entry is its key, the thread that
\* is constructing it (None once finish_loading has set its Event) and the device
\* argument of the call that inserted it.
EmbHas(m) == \E i \in 1..Len(emb.cache) : emb.cache[i].key = m

\* The thread a wait_for_loading on the entry of model m waits for, None when the
\* Event is set.
EmbOwner(m) == LET i == CHOOSE j \in 1..Len(emb.cache) : emb.cache[j].key = m
               IN emb.cache[i].owner

\* item = ThreadSafeObject(key, pool=self); self.set(key, item) in a pool of
\* capacity CacheNum: the new key goes last and _check_count pops the oldest ones.
EmbSet(c, m, t) ==
    LastN(Append(c, [key |-> m, owner |-> t, asked |-> emb.dev[t]]), CacheNum)

\* item.finish_loading() by thread t: the Event of its item is set, whether or not
\* the item is still in the pool, and the threads waiting on it wake up.
EmbFinish(t) ==
    [emb EXCEPT !.cache = [i \in 1..Len(@) |-> IF @[i].owner = t
                                               THEN [@[i] EXCEPT !.owner = None]
                                               ELSE @[i]],
                !.wait = [u \in Threads |-> IF @[u] = t THEN None ELSE @[u]]]

\* A thread calls embeddings_pool.load_embeddings(model=m, device=dv).
EmbCallDevice(t, m, dv) ==
    /\ pc[t] = "idle"
    /\ m \in keyset
    /\ pc' = [pc EXCEPT ![t] = "e_atomic"]
    /\ op' = [op EXCEPT ![t] = "emb"]
    /\ emb' = [emb EXCEPT !.model[t] = m, !.dev[t] = dv]
    /\ UNCHANGED <<cache_num, keyset, cache, ents, atomic, tkey, tent, texc, waited, nctor,
                   tcreate, disk, obs>>

\* A thread calls embeddings_pool.load_embeddings(model=m, device=embedding_device()).
EmbCall(t, m) == EmbCallDevice(t, m, EmbeddingDevice)

\* The constructor of a vector store finds index.faiss and calls load_kb_embeddings,
\* which calls embeddings_pool.load_embeddings(model=embed_model, ...).
LoadCtorEmb(t) ==
    /\ pc[t] = "l_ctor"
    /\ pc' = [pc EXCEPT ![t] = "e_atomic"]
    /\ emb' = [emb EXCEPT !.model[t] = EmbModel(tkey[t]), !.dev[t] = EmbeddingDevice]
    /\ UNCHANGED <<cache_num, keyset, cache, ents, atomic, op, tkey, tent, texc, waited,
                   nctor, tcreate, disk, obs>>

\* self.atomic.acquire(); self.get(key).  On a hit get goes on to wait_for_loading
\* with atomic held.  On a miss: item, self.set(key, item), item.acquire and
\* self.atomic.release(), all before any other thread can take atomic.
EmbBegin(t) ==
    /\ pc[t] = "e_atomic"
    /\ emb.atomic \in {None, t}
    /\ LET m == EmbKey(emb.model[t], emb.dev[t])
       IN IF EmbHas(m)
          THEN /\ emb' = [emb EXCEPT !.atomic = t, !.wait[t] = EmbOwner(m)]
               /\ pc' = [pc EXCEPT ![t] = "e_wait"]
          ELSE /\ emb' = [emb EXCEPT !.cache = EmbSet(@, m, t)]
               /\ pc' = [pc EXCEPT ![t] = "e_ctor"]
    /\ UNCHANGED <<cache_num, keyset, cache, ents, atomic, op, tkey, tent, texc, waited,
                   nctor, tcreate, disk, obs>>

\* wait_for_loading returns inside get; else: self.atomic.release()
EmbWaited(t) ==
    /\ pc[t] = "e_wait"
    /\ emb.wait[t] = None
    /\ emb' = [emb EXCEPT !.atomic = None]
    /\ pc' = [pc EXCEPT ![t] = "e_final"]
    /\ UNCHANGED <<cache_num, keyset, cache, ents, atomic, op, tkey, tent, texc, waited,
                   nctor, tcreate, disk, obs>>

\* The embeddings are built; item.obj = embeddings; item.finish_loading()
EmbCtor(t) ==
    /\ pc[t] = "e_ctor"
    /\ emb' = EmbFinish(t)
    /\ pc' = [pc EXCEPT ![t] = "e_final"]
    /\ UNCHANGED <<cache_num, keyset, cache, ents, atomic, op, tkey, tent, texc, waited,
                   nctor, tcreate, disk, obs>>

\* return self.get(key).obj: the lookup.  When the key is not in the pool get returns
\* None and None.obj raises AttributeError: it ends load_embeddings and, inside a
\* vector store's constructor, load_vector_store, whose with statement releases the
\* item's lock.
EmbFinal(t) ==
    /\ pc[t] = "e_final"
    /\ LET m == EmbKey(emb.model[t], emb.dev[t])
       IN IF EmbHas(m)
          THEN /\ emb' = [emb EXCEPT !.wait[t] = EmbOwner(m)]
               /\ pc' = [pc EXCEPT ![t] = "e_gwait"]
               /\ UNCHANGED <<cache, ents, tent, texc, nctor>>
          ELSE /\ emb' = [emb EXCEPT !.model[t] = None, !.dev[t] = None]
               /\ pc' = [pc EXCEPT ![t] = "ret"]
               /\ texc' = [texc EXCEPT ![t] = "AttributeError"]
               /\ IF op[t] = "load"
                  THEN Update(cache, [tent EXCEPT ![t] = None],
                              Release([ents EXCEPT ![tent[t]].failed = TRUE], tent[t]),
                              Bump(tkey[t]))
                  ELSE UNCHANGED <<cache, ents, tent, nctor>>
    /\ UNCHANGED <<cache_num, keyset, atomic, op, tkey, waited, tcreate, disk, obs>>

\* wait_for_loading returns inside the last get, and .obj is returned.  Inside a
\* vector store's constructor: FAISS.load_local(vs_path, embeddings); item.obj = vector_store
EmbReturn(t) ==
    /\ pc[t] = "e_gwait"
    /\ emb.wait[t] = None
    /\ emb' = [emb EXCEPT !.model[t] = None, !.dev[t] = None]
    /\ IF op[t] = "load"
       THEN /\ Update(cache, tent, [ents EXCEPT ![tent[t]].obj = 1], Bump(tkey[t]))
            /\ pc' = [pc EXCEPT ![t] = "l_fin"]
       ELSE /\ pc' = [pc EXCEPT ![t] = "ret"]
            /\ UNCHANGED <<cache, ents, tent, nctor>>
    /\ UNCHANGED <<cache_num, keyset, atomic, op, tkey, texc, waited, tcreate, disk, obs>>

\* The steps of load_embeddings.
EmbStep(t) ==
    \/ EmbBegin(t)
    \/ EmbWaited(t)
    \/ EmbCtor(t)
    \/ EmbFinal(t)
    \/ EmbReturn(t)

\* The steps of load_vector_store when its constructor always returns: it builds a
\* new store (LoadCtorOk), or finds an index and asks embeddings_pool for the
\* embeddings first (LoadCtorEmb).
NestedLoadStep(t) ==
    \/ LoadBegin(t)
    \/ LoadSet(t)
    \/ LoadWaited(t)
    \/ LoadItemAcquire(t)
    \/ LoadCtorOk(t)
    \/ LoadCtorEmb(t)
    \/ LoadFinish(t)
    \/ LoadFinal(t)
    \/ GetWaited(t)
    \/ Return(t)

\* Threads that call load_vector_store and load_embeddings, and nothing else.
NextNested ==
    \E t \in Pair :
        \/ \E k \in Keys : LoadCall(t, k) \/ EmbCall(t, k)
        \/ NestedLoadStep(t)
        \/ EmbStep(t)

\* kb_faiss_pool and embeddings_pool, each of capacity CacheNum.  The scheduler runs
\* every thread that can run, and a thread that finds a lock free again and again
\* gets it in the end: only a thread that stays blocked for ever makes no progress.
SpecNested ==
    /\ Init
    /\ [][NextNested]_vars
    /\ \A t \in Threads : SF_vars(NestedLoadStep(t) \/ EmbStep(t))

\* A single caller makes one call after another on a pool of positive capacity, with
\* one key more than the largest capacity; the history of its accesses is recorded.
InitSolo ==
    /\ TypeInit
    /\ NoRest
    /\ obs = [ObsOff EXCEPT !.on = TRUE]
    /\ cache_num \in 1..MaxCacheNum
    /\ keyset = Keys

NextSolo == LoadStep(Caller) \/ UseStep(Caller) \/ PoolStep(Caller)

SpecSolo == InitSolo /\ [][NextSolo]_vars

\* Two threads that call load_embeddings with a model and a device, and nothing else.
NextEmb ==
    \E t \in Pair :
        \/ \E m \in Keys, dv \in Devices : EmbCallDevice(t, m, dv)
        \/ EmbStep(t)
        \/ Return(t)

SpecEmb == Init /\ [][NextEmb]_vars

\* Two threads that call load_vector_store, with constructors that may raise, and
\* nothing else; a thread that can take a step again and again does take one.
NextFail == \E t \in Pair : LoadStep(t)

SpecFail == InitLive /\ [][NextFail]_vars /\ \A t \in Pair : SF_vars(Continue(t))

\* --------------------------------------------------------- drop_kb_summary

\* The key of knowledge base kb's summary store in kb_faiss_pool: the tuple
\* (kb_name, "summary_vector_store") that KBSummaryService.load_vector_store makes
\* KBFaissPool.load_vector_store insert.  The keys of the model are these tuples,
\* numbered by knowledge base.
SummaryKey(kb) == kb

\* self.kb_name, the argument of kb_faiss_pool.pop in drop_kb_summary: a str, which
\* is equal to no tuple, so a key that no entry of kb_faiss_pool has.
NameKey(kb) == 0 - kb

\* A caller calls KBSummaryService(kb).drop_kb_summary().
DropCall(t, kb) ==
    /\ pc[t] = "idle"
    /\ kb \in keyset
    /\ pc' = [pc EXCEPT ![t] = "k_atomic"]
    /\ op' = [op EXCEPT ![t] = "drop"]
    /\ tkey' = [tkey EXCEPT ![t] = SummaryKey(kb)]
    /\ UNCHANGED <<cache_num, keyset, cache, ents, atomic, tent, texc, waited, nctor,
                   rest, obs>>

\* with kb_faiss_pool.atomic: kb_faiss_pool.pop(self.kb_name);
\* shutil.rmtree(self.vs_path); and the with statement releases atomic, which leaves
\* the RLock as it was.  Then delete_summary_from_db, which is not part of the pool.
DropPop(t) ==
    /\ pc[t] = "k_atomic"
    /\ AtomicFree(t)
    /\ Update(Pop(cache, NameKey(tkey[t])), [tent EXCEPT ![t] = None], ents, nctor)
    /\ disk' = [disk EXCEPT ![tkey[t]] = NoIndex]
    /\ pc' = [pc EXCEPT ![t] = "ret"]
    /\ UNCHANGED <<cache_num, keyset, atomic, op, tkey, texc, waited, tcreate, emb, obs>>

\* KBSummaryService(kb).load_vector_store(): kb_faiss_pool.load_vector_store(
\* kb_name=self.kb_name, vector_name="summary_vector_store", ..., create=True)
SummaryLoadCall(t, kb) == LoadCallCreate(t, SummaryKey(kb), TRUE)

\* A single caller that loads summary stores, uses them (add_kb_summary) and drops
\* them.
NextDrop ==
    \/ \E kb \in Keys : SummaryLoadCall(Caller, kb)
    \/ LoadBegin(Caller)
    \/ LoadSet(Caller)
    \/ LoadWaited(Caller)
    \/ LoadItemAcquire(Caller)
    \/ LoadFromDisk(Caller)
    \/ LoadCreate(Caller)
    \/ LoadFinish(Caller)
    \/ LoadFinal(Caller)
    \/ GetWaited(Caller)
    \/ Return(Caller)
    \/ DiskUseStep(Caller)
    \/ \E kb \in Keys : DropCall(Caller, kb)
    \/ DropPop(Caller)

SpecDrop == InitDisk /\ [][NextDrop]_vars

\* ------------------------------------------------------------- docs_count

\* A caller calls docs_count() on the handle a load or get returned (directly, or
\* through repr): the method takes no lock.
DocsCountCall(t) ==
    /\ pc[t] = "ret"
    /\ tent[t] # None
    /\ texc[t] = ""
    /\ pc' = [pc EXCEPT ![t] = "d_read"]
    /\ op' = [op EXCEPT ![t] = "count"]
    /\ UNCHANGED <<cache_num, keyset, cache, ents, atomic, tkey, tent, texc, waited, nctor,
                   rest, obs>>

\* return len(self._obj.docstore._dict): the docstore is read, and the call is over.
DocsCountRead(t) ==
    /\ pc[t] = "d_read"
    /\ pc' = [pc EXCEPT ![t] = "ret"]
    /\ UNCHANGED <<cache_num, keyset, cache, ents, atomic, op, tkey, tent, texc, waited,
                   nctor, rest, obs>>

\* Two threads that load vector stores, add documents to them inside acquire scopes
\* and count their documents.
CountStep(t) ==
    \/ LoadStep(t)
    \/ UseStep(t)
    \/ \E d \in Docs : ScopeAdd(t, d)
    \/ DocsCountCall(t)
    \/ DocsCountRead(t)

NextCount == \E t \in Pair : CountStep(t)

SpecCount == Init /\ [][NextCount]_vars

\* Three threads that call load_vector_store, and nothing else.
NextCross == \E t \in Threads : LoadStep(t)

SpecCross == Init /\ [][NextCross]_vars

\* ------------------------------------------------------------------ claims

\* The thread is between the insertion of its placeholder and finish_loading.
Constructing(t) == pc[t] \in {"l_lock", "l_ctor", "l_fin"}

\* The thread is blocked in, or about to return from, wait_for_loading.
Waiting(t) == pc[t] \in {"g_wait", "l_wait"}

\* The thread holds an entry that CachePool.get (alone or at the end of a load) returned.
Returned(t) == pc[t] \in {"ret", "u_pop", "a_move"} /\ texc[t] = "" /\ op[t] # "use"

\* The thread is inside an acquire scope: it has taken the entry's lock in
\* ThreadSafeObject.acquire and not yet run its finally clause.
InScope(t) == pc[t] \in {"scope", "l_ctor", "l_fin"}

\* Key k is in the pool before the step and not after it.
Leaves(k) == InCache(k) /\ ~InCache(k)'

\* The step inserts a key, so what leaves the pool in it is evicted by _check_count.
Inserts == \E k \in Keys : ~InCache(k) /\ InCache(k)'

\* C1: when threads concurrently load the same key (nothing else takes entries out
\* of the pool), its constructor runs at most once, and every load that returns,
\* returns the one entry of that key in the pool, with its payload constructed.
C1_ConstructedOnce ==
    /\ \A k \in Keys : nctor[k] <= 1
    /\ \A t \in Threads :
          (pc[t] = "ret" /\ op[t] = "load" /\ texc[t] = "") =>
             /\ tent[t] # None
             /\ tent[t] = Lookup(tkey[t])
             /\ ents[tent[t]].obj # None
             /\ nctor[tkey[t]] = 1

\* Every calling thread has loaded the same key, one construction has run, and all
\* hold the same entry.
C1_Witness ==
    \E k \in Keys :
       /\ nctor[k] = 1
       /\ \A t \in Pair : pc[t] = "ret" /\ op[t] = "load" /\ texc[t] = "" /\ tkey[t] = k
       /\ \E t \in Pair : waited[t]
       /\ \A t, u \in Pair : tent[t] = tent[u] /\ tent[t] # None

\* C2: at no time are two constructions of the same key in progress in one pool.
C2_OneConstructionPerKey ==
    \A t, u \in Threads : (t # u /\ Constructing(t) /\ Constructing(u)) => tkey[t] # tkey[u]

\* C3: an entry that CachePool.get or a load call has returned has its readiness
\* signal open, also when the call found it under construction and blocked.
C3_ReturnedIsLoaded ==
    \A t \in Threads : (Returned(t) /\ tent[t] # None) => ents[tent[t]].loaded

\* A call found its key under construction, blocked, and has returned the entry.
C3_Witness ==
    \E t \in Threads : pc[t] = "ret" /\ texc[t] = "" /\ waited[t] /\ tent[t] # None
                       /\ op[t] \in {"get", "load"} /\ ents[tent[t]].loaded

\* C4: in a pool of positive capacity the number of entries never exceeds it.
C4_WithinCapacity == cache_num > 0 => Len(cache) <= cache_num

\* A load has just inserted a placeholder into a full pool: the pool is at capacity
\* and a thread still refers to an entry that is no longer in it.
C4_Witness ==
    /\ Len(cache) = cache_num
    /\ \E t \in Threads : pc[t] = "l_lock"
    /\ Orphans(cache, tent) # {}

\* C5: no step takes an entry out of the pool (eviction or pop) while a thread
\* holds that entry's exclusive lock.
C5_NoRemovalWhileLocked ==
    [][\A k \in Keys : Leaves(k) => ents[Lookup(k)].lock = None]_vars

\* C6: every entry that _check_count evicts has its readiness signal open.
C6_EvictsOnlyLoaded ==
    [][\A k \in Keys : (Leaves(k) /\ Inserts) => ents[Lookup(k)].loaded]_vars

\* C7: a thread waiting for the readiness of an entry whose construction raised
\* eventually stops waiting.
C7_FailedWaitersUnblock ==
    \A t \in Threads : (Waiting(t) /\ ents[tent[t]].failed) ~> ~Waiting(t)

\* C8: the pool holds no entry whose construction has failed.
C8_NoFailedPlaceholder == \A i \in 1..Len(cache) : ~ents[cache[i]].failed

\* C9: at most one thread is inside a caller's acquire scope (using the store) for
\* a given key.
C9_OneScopePerKey ==
    \A t, u \in Threads :
       (t # u /\ pc[t] = "scope" /\ pc[u] = "scope") => ents[tent[t]].key # ents[tent[u]].key

\* C10: an entry's lock is held only by a thread that is inside an acquire scope on
\* that entry; a thread that has left the scope, on any path, holds no lock.
C10_LockOnlyInScope ==
    \A e \in Ents : \A t \in Threads :
       ents[e].lock = t => (InScope(t) /\ tent[t] = e)

\* A thread's acquire raised KeyError after taking the lock, another thread's scope
\* ended by an exception, and no lock is held.
C10_Witness ==
    /\ \E t \in Threads : pc[t] = "ret" /\ op[t] = "use" /\ texc[t] = "KeyError"
    /\ \E t \in Threads : pc[t] = "ret" /\ op[t] = "use" /\ texc[t] = "scope"
    /\ \A e \in Ents : ents[e].lock = None

\* The keys of the pool, in OrderedDict order.
KeyOrder == [i \in 1..Len(cache) |-> ents[cache[i]].key]

\* The place of key k in a sequence of keys that holds it.
Pos(s, k) == CHOOSE i \in 1..Len(s) : s[i] = k

\* The key is in the pool and its entry is fully loaded.
Ready(k) == InCache(k) /\ ents[Lookup(k)].loaded

\* C11: whenever an insertion evicts a key, that key's entry is fully loaded and
\* every other fully loaded entry of the pool was accessed (by a get, a load hit or
\* an acquire) more recently than it.
C11_EvictsLeastRecent ==
    [][\A k \in Keys :
          (Leaves(k) /\ Inserts) =>
              /\ ents[Lookup(k)].loaded
              /\ \A j \in Keys \ {k} : Ready(j) => Pos(obs.recent, k) < Pos(obs.recent, j)]_vars

\* C12: in a pool of positive capacity, once as many keys have been inserted one
\* after another, with no access in between, as the pool can hold, the pool holds
\* exactly the last cache_num inserted keys, oldest first.
C12_KeepsLastInserted ==
    (cache_num > 0 /\ Len(obs.hist) >= cache_num) => KeyOrder = LastN(obs.hist, cache_num)

\* More keys than a pool of capacity two or more can hold have been inserted one
\* after another, and the last load has returned: the first of them was evicted.
C12_Witness ==
    /\ cache_num > 1
    /\ Len(obs.hist) > cache_num
    /\ ~InCache(obs.hist[1])
    /\ pc[Caller] = "ret" /\ op[Caller] = "load" /\ texc[Caller] = ""

\* C13: when a get or a load has returned the entry of key k, or an acquire has
\* entered its scope on it, k is the last key of the pool's order.
C13_AccessedIsLast ==
    \A t \in Threads :
        (\/ pc[t] = "ret" /\ texc[t] = "" /\ op[t] \in {"get", "load"} /\ tent[t] # None
         \/ pc[t] = "scope")
        => (Len(cache) > 0 /\ KeyOrder[Len(cache)] = ents[tent[t]].key)

C15_RemovedIsAbsent ==
    [][\A t \in Threads, k \in Keys :
          /\ (pc[t] = "u_pop" /\ pc'[t] = "ret" /\ tkey[t] = k) => ~InCache(k)'
          /\ (~InCache(k) /\ InCache(k)') =>
                 \E u \in Threads : pc[u] = "l_set" /\ tkey[u] = k /\ pc'[u] = "l_lock"
          /\ (pc[t] = "idle" /\ op'[t] = "get" /\ tkey'[t] = k /\ ~InCache(k)) =>
                 (pc'[t] = "ret" /\ tent'[t] = None)]_vars

\* One thread has unloaded a key, and the other thread's get of that key has returned
\* None.
C15_Witness ==
    \E t, u \in Threads :
        /\ pc[t] = "ret" /\ op[t] = "unloaded"
        /\ pc[u] = "ret" /\ op[u] = "get" /\ tkey[u] = tkey[t] /\ tent[u] = None
        /\ ~InCache(tkey[t])

C17_NotFoundRaises ==
    [][\A t \in Threads :
          (pc[t] = "l_ctor" /\ ~tcreate[t] /\ ~disk[tkey[t]].index /\ pc'[t] # "l_ctor") =>
              /\ pc'[t] = "ret"
              /\ texc'[t] = "NotFound"
              /\ disk' = disk
              /\ \A e \in Ents : ents'[e].key = tkey[t] => ~ents'[e].loaded]_vars

\* A load with create=False has ended with the "not exist" error and there is no
\* index on disk.
C17_Witness ==
    \E t \in Threads :
        /\ pc[t] = "ret" /\ texc[t] = "NotFound" /\ ~tcreate[t]
        /\ ~disk[tkey[t]].index

\* C18: a load with create=True of a key with no index on disk eventually returns a
\* loaded entry with no documents, and leaves an index with no documents on disk.
C18_CreateSucceeds ==
    \A t \in Threads :
        (pc[t] = "l_atomic" /\ tcreate[t] /\ ~disk[tkey[t]].index)
        ~> (/\ pc[t] = "ret" /\ texc[t] = "" /\ tent[t] # None
            /\ ents[tent[t]].loaded
            /\ ents[tent[t]].docs = {}
            /\ disk[tkey[t]] = SaveLocal({}))

\* C19: with constructors that always return, every call of load_vector_store and of
\* load_embeddings that has started comes to its end.
C19_LoadsComplete == \A t \in Threads : (pc[t] # "idle") ~> (pc[t] = "ret")

\* C20: the pool-wide lock is never held across construction: a thread whose
\* constructor is running (load_vector_store between atomic.release() and
\* item.obj = vector_store) does not hold atomic.
C20_AtomicFreeInCtor ==
    \A t \in Threads : pc[t] = "l_ctor" => atomic.owner # t

\* The thread is blocked in wait_for_loading: the Event of the entry it waits for is
\* not set.
Blocked(t) == Waiting(t) /\ tent[t] # None /\ ~ents[tent[t]].loaded

\* C21: no thread holds atomic while it is blocked in wait_for_loading.
C21_AtomicFreeWhileWaiting ==
    \A t \in Threads : Blocked(t) => atomic.owner # t

\* C22: a load of key k2 is not made to wait for the construction of another key
\* k1: no load call waits at self.atomic.acquire() for a thread that holds atomic
\* while it is blocked in wait_for_loading on an entry of another key.
C22_NoCrossKeyBlocking ==
    \A t, u \in Threads :
        (pc[t] = "l_atomic" /\ atomic.owner = u /\ u # t /\ Blocked(u))
            => ents[tent[u]].key = tkey[t]

\* C23: every step that changes the pool's key map (an insertion, a removal, an
\* eviction, a reordering) is taken by a thread that holds atomic.
C23_MutationUnderAtomic ==
    [][KeyOrder' # KeyOrder =>
          \E t \in Threads : pc'[t] # pc[t] /\ atomic.owner = t]_vars

\* C24: an entry whose Event is set has a payload, and a payload without the Event
\* set is one the constructing thread has just assigned, before its finish_loading.
C24_LoadedHasPayload ==
    \A e \in Ents :
        /\ ents[e].loaded => ents[e].obj # None
        /\ (ents[e].obj # None /\ ~ents[e].loaded) =>
              \E t \in Threads : pc[t] = "l_fin" /\ tent[t] = e /\ ents[e].lock = t

\* An entry has been loaded and has left the pool since, and a thread is using it
\* in an acquire scope or has just failed to.
C24_Witness ==
    \E t \in Threads :
        /\ op[t] = "use"
        /\ tent[t] # None
        /\ ents[tent[t]].loaded
        /\ ~InCache(ents[tent[t]].key)

\* C25: a thread that reads or writes the payload of a loaded entry (in an acquire
\* scope, or reading the docstore in docs_count) holds that entry's lock.
C25_ResourceUnderLock ==
    \A t \in Threads :
        pc[t] \in {"scope", "d_read"} => ents[tent[t]].lock = t

\* The entry of embeddings_pool under key k.
EmbEntry(k) == emb.cache[CHOOSE j \in 1..Len(emb.cache) : emb.cache[j].key = k]

\* C26: load_embeddings(model, device) stores and looks up its entry under the key
\* (model, device) of the caller's arguments, so the entry a call finds in the pool
\* was inserted by a call with the same device argument.
C26_KeyedByModelAndDevice ==
    \A t \in Threads :
        LET k == EmbKey(emb.model[t], emb.dev[t])
        IN (pc[t] \in {"e_wait", "e_final", "e_gwait"} /\ op[t] = "emb") =>
              /\ k = <<emb.model[t], emb.dev[t]>>
              /\ EmbHas(k) => EmbEntry(k).asked = emb.dev[t]

\* C27: when constructors succeed, a load_embeddings call that has ended has not
\* raised, and a load_vector_store call that has ended without raising has returned
\* an entry.
C27_LoadReturnsEntry ==
    \A t \in Threads :
        pc[t] = "ret" =>
            /\ op[t] = "emb" => texc[t] = ""
            /\ (op[t] = "load" /\ texc[t] = "") => tent[t] # None

\* The constructor of key k has raised: its placeholder is in the pool.
FailedInPool(k) == \E i \in 1..Len(cache) : ents[cache[i]].key = k /\ ents[cache[i]].failed

\* C28: after the constructor of a key k has raised, a load request for another key
\* comes to its end.
C28_OtherKeysServed ==
    \A t \in Threads :
        (pc[t] = "l_atomic" /\ \E k \in Keys : k # tkey[t] /\ FailedInPool(k))
            ~> (pc[t] = "ret")

\* C29: an acquire on a handle that load_vector_store returned does not raise: the
\* only exception an acquire scope ends with is one its body raised.
C29_HandleStaysUsable ==
    \A t \in Threads : op[t] = "use" => texc[t] # "KeyError"

\* C30: once drop_kb_summary has completed for a knowledge base, kb_faiss_pool holds
\* no entry under the key of that knowledge base's summary store.
C30_DroppedIsAbsent ==
    \A t \in Threads :
        (pc[t] = "ret" /\ op[t] = "drop") => ~InCache(tkey[t])

====
